---- MODULE Spec2Model ----
(***************************************************************************)
(* Model of the Tiki crawler (take_tiki_data.py): the semaphore-bounded    *)
(* fetch/retry coroutine fetch_product, and the batch loop of main with    *)
(* its file-existence checkpoint, batch artifacts and failure log.         *)
(*                                                                         *)
(* One process run is the coroutine main plus one fetch_product task per   *)
(* identifier of the batch in flight.  The disk (artifact directory and    *)
(* failed_ids.csv) survives a process restart, the memory does not.        *)
(*                                                                         *)
(* The module globals BATCH_SIZE, MAX_CONCURRENCY and MAX_RETRIES are       *)
(* state set at import and never assigned again.  MAX_RETRIES keeps its    *)
(* value 3; BATCH_SIZE and MAX_CONCURRENCY are scaled down (1000, 100 ->   *)
(* SmallBatch, SmallSlots) so that a batch still has more identifiers      *)
(* than the semaphore has slots.                                           *)
(***************************************************************************)
EXTENDS Integers, Sequences, FiniteSets, TLC

\* ------------------------------------------------------------------------
\* MAX_RETRIES = 3
Retries == 3

\* Bounds of the model: the scaled values of BATCH_SIZE and
\* MAX_CONCURRENCY, and the number of identifiers in the input file.
SmallBatch == 2
SmallSlots == 1
NumIds == 3

\* The identifiers (strings after astype(str)); unique, as delivered by
\* check_duplicate.py.
IdList == <<"A", "B", "C", "D", "E">>
InputIds == SubSeq(IdList, 1, NumIds)

\* Header row of failed_ids.csv (columns of df_failed).
Header == <<"id", "error">>

VARIABLES
    \* ---- module globals, set at import ----
    MAX_CONCURRENCY,
    MAX_RETRIES,
    BATCH_SIZE,
    \* ---- disk ----
    artifact,        \* OUTPUT_DIR: batch index -> file tiki_batch_<i>.json
    failedFile,      \* failed_ids.csv: [exists, lines]
    \* ---- memory of one process run ----
    ids,             \* list loaded from INPUT_FILE
    pc,              \* position of main
    done_batches,    \* local of main: batch indices found in OUTPUT_DIR
    start_batch,     \* checkpoint resolution result (0 before it ran)
    batch_index,     \* loop variable of main (0 before the loop)
    task,            \* fetch_product tasks of the batch in flight: state,
                     \* attempt, and duration of the latest backoff sleep
    sem,             \* semaphore._value
    results,         \* list results of main
    completed,       \* values of the returned tasks that main's loop over
                     \* as_completed has not taken yet, in completion order
    failed_ids,      \* global list failed_ids
    consecutive_429, \* global counter
    write_header,    \* local of main, computed before to_csv
    \* ---- history (not read by the program) ----
    hist,            \* outcomes received per identifier in this batch
                     \* (kept through the cool-down, until the next index)
    dispatched,      \* batch indices dispatched by this run, in order
    terminal,        \* batches whose identifiers all reached an outcome
    prev             \* how the previous process run ended

disk == <<artifact, failedFile>>
conf == <<MAX_CONCURRENCY, MAX_RETRIES, BATCH_SIZE, ids>>
ghost == <<hist, dispatched, terminal, prev>>
vars == <<MAX_CONCURRENCY, MAX_RETRIES, BATCH_SIZE,
          artifact, failedFile, ids, pc, start_batch, batch_index, task, sem,
          done_batches, results, completed, failed_ids, consecutive_429,
          write_header, hist, dispatched, terminal, prev>>

\* ------------------------------------------------------------------------
\* Pure helpers

Max(S) == CHOOSE x \in S : \A y \in S : y <= x

Min2(a, b) == IF a <= b THEN a ELSE b

Range(s) == {s[i] : i \in 1..Len(s)}

\* total_batches = (len(ids) + BATCH_SIZE - 1) // BATCH_SIZE
total_batchesMutFloor(l) == Len(l) \div BATCH_SIZE
total_batches(l) == (Len(l) + BATCH_SIZE - 1) \div BATCH_SIZE

\* start = (batch_index - 1) * BATCH_SIZE
slice_start(b) == (b - 1) * BATCH_SIZE

\* end = min(start + BATCH_SIZE, len(ids))
slice_end(l, b) == Min2(slice_start(b) + BATCH_SIZE, Len(l))

\* batch_ids = ids[start:end]   (0-based half-open slice)
batch_ids(l, b) == SubSeq(l, slice_start(b) + 1, slice_end(l, b))

BatchSet(l, b) == Range(batch_ids(l, b))

\* File states of the artifact directory.
Absent == [st |-> "absent", recs |-> <<>>]
Truncated == [st |-> "partial", recs |-> <<>>]
Complete(r) == [st |-> "complete", recs |-> r]

\* the set comprehension of lines 108-112: the indices parsed from the names
\* tiki_batch_<i>.json listed in OUTPUT_DIR
ListBatches(dir) == {b \in DOMAIN dir : dir[b].st # "absent"}

\* start_batch = max(done_batches) + 1 if done_batches else 1
ResolveMutNoPlusOne(done) == IF done = {} THEN 1 ELSE Max(done)
Resolve(done) == IF done = {} THEN 1 ELSE Max(done) + 1

\* write_header = not file_exists or os.path.getsize(FAILED_FILE) == 0
WriteHeaderMutMissingOnly(f) == ~f.exists
WriteHeader(f) == ~f.exists \/ Len(f.lines) = 0

\* semaphore.locked() is false: a slot is free
SlotFreeMutUnbounded(v) == TRUE
SlotFree(v) == v > 0

\* if product: results.append(product)
CollectMutOverwrite(r, pid) == <<pid>>
Collect(r, pid) == Append(r, pid)

\* wait = 5 * attempt / asyncio.sleep(2 * attempt)
Wait429MutFixed(a) == 5
Wait429(a) == 5 * a
WaitTimeout(a) == 2 * a

\* failed_ids.clear()
ClearMutKeep(buf) == buf
Clear(buf) == <<>>

\* the value of a fetch_product call that returns no record
None == "None"

NoTask == [st |-> "idle", attempt |-> 0, wait |-> 0]

\* the hard join: every task of the batch has returned (main leaves the
\* as_completed loop once it has also taken every value)
AllDoneMutAny(t, S) == \E p \in S : t[p].st = "done"
AllDone(t, S) == \A p \in S : t[p].st = "done"

CurBatch == BatchSet(ids, batch_index)

\* some fetch_product task has not returned yet
InFlight == \E p \in Range(IdList) : task[p].st \in {"wait", "held", "backoff"}

NoPrev == [how |-> "none", batch |-> 0]

\* ------------------------------------------------------------------------
\* Initial state: module import done, main not yet started; empty output
\* directory, no failure log.

InitMem ==
    /\ pc = "start"
    /\ done_batches = {}
    /\ start_batch = 0
    /\ batch_index = 0
    /\ task = [p \in Range(IdList) |-> NoTask]
    /\ sem = MAX_CONCURRENCY
    /\ results = <<>>
    /\ completed = <<>>
    /\ failed_ids = <<>>
    /\ consecutive_429 = 0
    /\ write_header = FALSE
    /\ hist = [p \in Range(IdList) |-> <<>>]
    /\ dispatched = <<>>

InitWith(slots, retries, bsize, l) ==
    /\ MAX_CONCURRENCY = slots
    /\ MAX_RETRIES = retries
    /\ BATCH_SIZE = bsize
    /\ ids = l
    /\ artifact = [b \in 1..total_batches(l) |-> Absent]
    /\ failedFile = [exists |-> FALSE, lines |-> <<>>]
    /\ terminal = {}
    /\ prev = NoPrev
    /\ InitMem

Init == InitWith(SmallSlots, Retries, SmallBatch, InputIds)

\* ------------------------------------------------------------------------
\* main

\* lines 103-114: load the identifiers, resolve the checkpoint
Startup ==
    /\ pc = "start"
    /\ done_batches' = ListBatches(artifact)
    /\ start_batch' = Resolve(done_batches')
    /\ batch_index' = Resolve(done_batches')
    /\ pc' = "loop"
    /\ UNCHANGED <<disk, conf, completed, task, sem, results, failed_ids,
                   consecutive_429, write_header, ghost>>

\* lines 118-125: next iteration of the batch loop, tasks created
BatchStart ==
    /\ pc = "loop"
    /\ batch_index <= total_batches(ids)
    /\ results' = <<>>
    /\ completed' = <<>>
    /\ task' = [p \in Range(IdList) |->
                  IF p \in CurBatch
                  THEN [st |-> "wait", attempt |-> 1, wait |-> 0]
                  ELSE NoTask]
    /\ hist' = [p \in Range(IdList) |-> <<>>]
    /\ dispatched' = Append(dispatched, batch_index)
    /\ prev' = NoPrev
    /\ pc' = "join"
    /\ UNCHANGED <<disk, conf, done_batches, start_batch, batch_index, sem,
                   failed_ids, consecutive_429, write_header, terminal>>

\* lines 157-166: the loop is exhausted, end-of-run summary
Finish ==
    /\ pc = "loop"
    /\ batch_index > total_batches(ids)
    /\ pc' = "done"
    /\ UNCHANGED <<disk, conf, completed, done_batches, start_batch, batch_index,
                   task, sem, results, failed_ids, consecutive_429,
                   write_header, ghost>>

\* ------------------------------------------------------------------------
\* fetch_product(session, pid), one task per identifier of the batch

\* line 52: async with semaphore (acquire), then the politeness sleep and
\* the request are in flight
Acquire(p) ==
    /\ pc = "join"
    /\ task[p].st = "wait"
    /\ SlotFree(sem)
    /\ sem' = sem - 1
    /\ task' = [task EXCEPT ![p].st = "held"]
    /\ UNCHANGED <<disk, conf, completed, pc, done_batches, start_batch, batch_index,
                   results, failed_ids, consecutive_429, write_header,
                   ghost>>

\* (the task returns and keeps the slot it holds)
ReturnMutNoRelease(p, o, product, fails) ==
    /\ task' = [task EXCEPT ![p].st = "done"]
    /\ sem' = sem
    /\ completed' = Append(completed, product)
    /\ failed_ids' = fails
    /\ hist' = [hist EXCEPT ![p] = Append(@, o)]
    /\ terminal' = IF \A q \in CurBatch : task'[q].st = "done"
                   THEN terminal \cup {batch_index} ELSE terminal
    /\ UNCHANGED <<disk, conf, pc, done_batches, start_batch, batch_index,
                   results, consecutive_429, write_header, dispatched, prev>>

\* the task returns its value (None or the record): the semaphore block
\* is left, the done callback of as_completed queues the task for main
Return(p, o, product, fails) ==
    /\ task' = [task EXCEPT ![p].st = "done"]
    /\ sem' = sem + 1
    /\ completed' = Append(completed, product)
    /\ failed_ids' = fails
    /\ hist' = [hist EXCEPT ![p] = Append(@, o)]
    /\ terminal' = IF \A q \in CurBatch : task'[q].st = "done"
                   THEN terminal \cup {batch_index} ELSE terminal
    /\ UNCHANGED <<disk, conf, pc, done_batches, start_batch, batch_index,
                   results, consecutive_429, write_header, dispatched, prev>>

\* lines 73-85: status 200, the record is returned
Respond200(p) ==
    /\ pc = "join"
    /\ task[p].st = "held"
    /\ Return(p, "200", p, failed_ids)

\* (lines 63-66 without the return: 404 handled like a retryable status)
Respond404MutRetry(p) ==
    /\ pc = "join"
    /\ task[p].st = "held"
    /\ failed_ids' = Append(failed_ids, <<p, "404">>)
    /\ task' = [task EXCEPT ![p].st = "backoff"]
    /\ hist' = [hist EXCEPT ![p] = Append(@, "404")]
    /\ UNCHANGED <<disk, conf, completed, pc, done_batches, start_batch, batch_index,
                   sem, results, consecutive_429, write_header, dispatched,
                   terminal, prev>>

\* lines 63-66
Respond404(p) ==
    /\ pc = "join"
    /\ task[p].st = "held"
    /\ Return(p, "404", None, Append(failed_ids, <<p, "404">>))

\* (lines 68-71 without the return: the status is retried)
RespondOtherMutRetry(p) ==
    /\ pc = "join"
    /\ task[p].st = "held"
    /\ failed_ids' = Append(failed_ids, <<p, "500">>)
    /\ task' = [task EXCEPT ![p].st = "backoff"]
    /\ hist' = [hist EXCEPT ![p] = Append(@, "500")]
    /\ UNCHANGED <<disk, conf, completed, pc, done_batches, start_batch, batch_index,
                   sem, results, consecutive_429, write_header, dispatched,
                   terminal, prev>>

\* lines 68-71: any other status (500 stands for them)
RespondOther(p) ==
    /\ pc = "join"
    /\ task[p].st = "held"
    /\ Return(p, "500", None, Append(failed_ids, <<p, "500">>))

\* (lines 90-93 without the handler: the exception reaches main)
RespondExceptionMutAbort(p) ==
    /\ pc = "join"
    /\ task[p].st = "held"
    /\ pc' = "dead"
    /\ UNCHANGED <<disk, conf, completed, done_batches, start_batch, batch_index,
                   task, sem, results, failed_ids, consecutive_429,
                   write_header, ghost>>

\* lines 90-93: any exception but a timeout (connection error, bad JSON)
RespondException(p) ==
    /\ pc = "join"
    /\ task[p].st = "held"
    /\ Return(p, "exception", None, Append(failed_ids, <<p, "Exception">>))

\* lines 56-60: status 429, the backoff sleep starts inside the semaphore
Respond429(p) ==
    /\ pc = "join"
    /\ task[p].st = "held"
    /\ consecutive_429' = consecutive_429 + 1
    /\ task' = [task EXCEPT ![p].st = "backoff",
                            ![p].wait = Wait429(task[p].attempt)]
    /\ hist' = [hist EXCEPT ![p] = Append(@, "429")]
    /\ UNCHANGED <<disk, conf, completed, pc, done_batches, start_batch, batch_index,
                   sem, results, failed_ids, write_header, dispatched,
                   terminal, prev>>

\* lines 87-89: timeout, the backoff sleep starts inside the semaphore
RespondTimeout(p) ==
    /\ pc = "join"
    /\ task[p].st = "held"
    /\ task' = [task EXCEPT ![p].st = "backoff",
                            ![p].wait = WaitTimeout(task[p].attempt)]
    /\ hist' = [hist EXCEPT ![p] = Append(@, "timeout")]
    /\ UNCHANGED <<disk, conf, completed, pc, done_batches, start_batch, batch_index,
                   sem, results, failed_ids, consecutive_429, write_header,
                   dispatched, terminal, prev>>

\* (the retry loop running one iteration too many)
RetryMutOffByOne(p) ==
    /\ pc = "join"
    /\ task[p].st = "backoff"
    /\ task[p].attempt <= MAX_RETRIES
    /\ sem' = sem + 1
    /\ task' = [task EXCEPT ![p] = [st |-> "wait", attempt |-> @.attempt + 1,
                                     wait |-> @.wait]]
    /\ UNCHANGED <<disk, conf, completed, pc, done_batches, start_batch, batch_index,
                   results, failed_ids, consecutive_429, write_header,
                   ghost>>

\* line 61 / end of line 89: the sleep is over, the semaphore block is
\* left and the loop goes to the next attempt
Retry(p) ==
    /\ pc = "join"
    /\ task[p].st = "backoff"
    /\ task[p].attempt < MAX_RETRIES
    /\ sem' = sem + 1
    /\ task' = [task EXCEPT ![p] = [st |-> "wait", attempt |-> @.attempt + 1,
                                     wait |-> @.wait]]
    /\ UNCHANGED <<disk, conf, completed, pc, done_batches, start_batch, batch_index,
                   results, failed_ids, consecutive_429, write_header,
                   ghost>>

\* (lines 95-97 without the append: None is returned, nothing recorded)
GiveUpMutSilent(p) ==
    /\ pc = "join"
    /\ task[p].st = "backoff"
    /\ task[p].attempt >= MAX_RETRIES
    /\ sem' = sem + 1
    /\ completed' = Append(completed, None)
    /\ task' = [task EXCEPT ![p] = [st |-> "done", attempt |-> @.attempt,
                                     wait |-> 0]]
    /\ terminal' = IF \A q \in CurBatch : task'[q].st = "done"
                   THEN terminal \cup {batch_index} ELSE terminal
    /\ UNCHANGED <<disk, conf, pc, done_batches, start_batch, batch_index,
                   results, failed_ids, consecutive_429, write_header, hist,
                   dispatched, prev>>

\* (lines 95-97 with the reason taken from the last outcome)
GiveUpMutCause(p) ==
    /\ pc = "join"
    /\ task[p].st = "backoff"
    /\ task[p].attempt >= MAX_RETRIES
    /\ sem' = sem + 1
    /\ completed' = Append(completed, None)
    /\ task' = [task EXCEPT ![p] = [st |-> "done", attempt |-> @.attempt,
                                     wait |-> 0]]
    /\ failed_ids' = Append(failed_ids, <<p, hist[p][Len(hist[p])]>>)
    /\ terminal' = IF \A q \in CurBatch : task'[q].st = "done"
                   THEN terminal \cup {batch_index} ELSE terminal
    /\ UNCHANGED <<disk, conf, pc, done_batches, start_batch, batch_index,
                   results, consecutive_429, write_header, hist,
                   dispatched, prev>>

\* lines 95-97: the loop is exhausted
GiveUp(p) ==
    /\ pc = "join"
    /\ task[p].st = "backoff"
    /\ task[p].attempt >= MAX_RETRIES
    /\ sem' = sem + 1
    /\ completed' = Append(completed, None)
    /\ task' = [task EXCEPT ![p] = [st |-> "done", attempt |-> @.attempt,
                                     wait |-> 0]]
    /\ failed_ids' = Append(failed_ids, <<p, "Failed">>)
    /\ terminal' = IF \A q \in CurBatch : task'[q].st = "done"
                   THEN terminal \cup {batch_index} ELSE terminal
    /\ UNCHANGED <<disk, conf, pc, done_batches, start_batch, batch_index,
                   results, consecutive_429, write_header, hist,
                   dispatched, prev>>

\* lines 126-129: main takes the next completed task from as_completed;
\* a record is appended to results, None is dropped
Consume ==
    /\ pc = "join"
    /\ completed # <<>>
    /\ results' = IF Head(completed) # None
                  THEN Collect(results, Head(completed))
                  ELSE results
    /\ completed' = Tail(completed)
    /\ UNCHANGED <<disk, conf, pc, done_batches, start_batch, batch_index,
                   task, sem, failed_ids, consecutive_429, write_header,
                   ghost>>

\* ------------------------------------------------------------------------
\* main, after the join: the batch artifact and the failure log

\* lines 135-136: open(out_file, "w") creates or truncates the file
OpenArtifact ==
    /\ pc = "join"
    /\ AllDone(task, CurBatch)
    /\ completed = <<>>
    /\ artifact' = [artifact EXCEPT ![batch_index] = Truncated]
    /\ pc' = "dump"
    /\ UNCHANGED <<failedFile, conf, completed, done_batches, start_batch,
                   batch_index, task, sem, results, failed_ids,
                   consecutive_429, write_header, ghost>>

\* line 136: open raises OSError, main dies with the exception
OpenFails ==
    /\ pc = "join"
    /\ AllDone(task, CurBatch)
    /\ completed = <<>>
    /\ pc' = "dead"
    /\ prev' = [how |-> "openfail", batch |-> batch_index]
    /\ UNCHANGED <<disk, conf, completed, done_batches, start_batch, batch_index,
                   task, sem, results, failed_ids, consecutive_429,
                   write_header, hist, dispatched, terminal>>

\* line 137: json.dump(results, f) and the close of the file succeed
DumpArtifact ==
    /\ pc = "dump"
    /\ artifact' = [artifact EXCEPT ![batch_index] = Complete(results)]
    /\ pc' = "flush"
    /\ UNCHANGED <<failedFile, conf, completed, done_batches, start_batch,
                   batch_index, task, sem, results, failed_ids,
                   consecutive_429, write_header, ghost>>

\* line 137: json.dump raises OSError mid-way; the with block closes the
\* file, which stays on disk as it is, and main dies with the exception
DumpFails ==
    /\ pc = "dump"
    /\ pc' = "dead"
    /\ prev' = [how |-> "dumpfail", batch |-> batch_index]
    /\ UNCHANGED <<disk, conf, completed, done_batches, start_batch, batch_index,
                   task, sem, results, failed_ids, consecutive_429,
                   write_header, hist, dispatched, terminal>>

\* lines 142, 154-155: nothing failed in this batch; del results, tasks;
\* main suspends in the cool-down sleep
SkipFlush ==
    /\ pc = "flush"
    /\ failed_ids = <<>>
    /\ task' = [p \in Range(IdList) |-> NoTask]
    /\ results' = <<>>
    /\ pc' = "sleep"
    /\ UNCHANGED <<disk, conf, completed, done_batches, start_batch, batch_index,
                   sem, failed_ids, consecutive_429, write_header, ghost>>

\* lines 142-146: write_header is computed, to_csv opens the log in
\* append mode (which creates it when missing)
FlushOpen ==
    /\ pc = "flush"
    /\ failed_ids # <<>>
    /\ write_header' = WriteHeader(failedFile)
    /\ failedFile' = [failedFile EXCEPT !.exists = TRUE]
    /\ pc' = IF write_header' THEN "flushh" ELSE "flushr"
    /\ UNCHANGED <<artifact, conf, completed, done_batches, start_batch, batch_index,
                   task, sem, results, failed_ids, consecutive_429, ghost>>

\* lines 146-151, header=True: the header row reaches the file
FlushHeader ==
    /\ pc = "flushh"
    /\ failedFile' = [failedFile EXCEPT !.lines = Append(@, Header)]
    /\ pc' = "flushr"
    /\ UNCHANGED <<artifact, conf, completed, done_batches, start_batch, batch_index,
                   task, sem, results, failed_ids, consecutive_429,
                   write_header, ghost>>

\* lines 146-155: the rows reach the file, the buffer is cleared; del
\* results, tasks; main suspends in the cool-down sleep
FlushRows ==
    /\ pc = "flushr"
    /\ failedFile' = [failedFile EXCEPT !.lines = @ \o failed_ids]
    /\ failed_ids' = Clear(failed_ids)
    /\ task' = [p \in Range(IdList) |-> NoTask]
    /\ results' = <<>>
    /\ pc' = "sleep"
    /\ UNCHANGED <<artifact, conf, completed, done_batches, start_batch, batch_index,
                   sem, consecutive_429, write_header, ghost>>

\* line 146: to_csv raises OSError, main dies with the exception: at the
\* open of the log (write_header is computed, the file is as it was) or
\* while writing
FlushFails ==
    /\ \/ pc = "flush" /\ failed_ids # <<>>
       \/ pc \in {"flushh", "flushr"}
    /\ write_header' = IF pc = "flush" THEN WriteHeader(failedFile)
                       ELSE write_header
    /\ pc' = "dead"
    /\ prev' = [how |-> "flushfail", batch |-> batch_index]
    /\ UNCHANGED <<disk, conf, completed, done_batches, start_batch, batch_index,
                   task, sem, results, failed_ids, consecutive_429,
                   hist, dispatched, terminal>>

\* line 155 and the loop header: the cool-down sleep is over, next batch
\* index
NextBatch ==
    /\ pc = "sleep"
    /\ batch_index' = batch_index + 1
    /\ hist' = [p \in Range(IdList) |-> <<>>]
    /\ pc' = "loop"
    /\ UNCHANGED <<disk, conf, completed, done_batches, start_batch, task, sem,
                   results, failed_ids, consecutive_429, write_header,
                   dispatched, terminal, prev>>

\* ------------------------------------------------------------------------
\* The process ends (killed at any point, dead after an I/O error, or
\* finished) and the script is launched again: the memory is lost, the
\* disk stays.
Restart ==
    /\ pc # "start"
    /\ prev' = IF pc = "dead" THEN prev
               ELSE IF InFlight
               THEN [how |-> "midflight", batch |-> batch_index]
               ELSE [how |-> "other", batch |-> batch_index]
    /\ pc' = "start"
    /\ done_batches' = {}
    /\ start_batch' = 0
    /\ batch_index' = 0
    /\ task' = [p \in Range(IdList) |-> NoTask]
    /\ sem' = MAX_CONCURRENCY
    /\ results' = <<>>
    /\ completed' = <<>>
    /\ failed_ids' = <<>>
    /\ consecutive_429' = 0
    /\ write_header' = FALSE
    /\ hist' = [p \in Range(IdList) |-> <<>>]
    /\ dispatched' = <<>>
    /\ UNCHANGED <<disk, conf, terminal>>

\* ------------------------------------------------------------------------
Fetch(p) ==
    \/ Acquire(p)
    \/ Respond200(p)
    \/ Respond404(p)
    \/ RespondOther(p)
    \/ RespondException(p)
    \/ Respond429(p)
    \/ RespondTimeout(p)
    \/ Retry(p)
    \/ GiveUp(p)

NextRun ==
    \/ Startup
    \/ BatchStart
    \/ Finish
    \/ \E p \in Range(IdList) : Fetch(p)
    \/ Consume
    \/ OpenArtifact
    \/ DumpArtifact
    \/ SkipFlush
    \/ FlushOpen
    \/ FlushHeader
    \/ FlushRows
    \/ NextBatch

Next ==
    \/ NextRun
    \/ OpenFails
    \/ DumpFails
    \/ FlushFails
    \/ Restart

Spec == Init /\ [][Next]_vars

\* ------------------------------------------------------------------------
\* Other specifications

\* One run without I/O error or kill, under the scheduling of the event
\* loop: every ready coroutine is eventually run, every request eventually
\* gets an outcome, every sleep ends.
MainStep ==
    \/ Startup
    \/ BatchStart
    \/ Finish
    \/ Consume
    \/ OpenArtifact
    \/ DumpArtifact
    \/ SkipFlush
    \/ FlushOpen
    \/ FlushHeader
    \/ FlushRows
    \/ NextBatch

Fairness ==
    /\ WF_vars(MainStep)
    /\ \A p \in Range(IdList) : WF_vars(Fetch(p))

\* The run starts on the disk that earlier runs left after k whole batches
\* in which every identifier got status 200 (k = 0: the first run).
InitLive ==
    \E k \in 0..((NumIds + SmallBatch - 1) \div SmallBatch) :
        /\ MAX_CONCURRENCY = SmallSlots
        /\ MAX_RETRIES = Retries
        /\ BATCH_SIZE = SmallBatch
        /\ ids = InputIds
        /\ artifact = [b \in 1..total_batches(InputIds) |->
                         IF b <= k THEN Complete(batch_ids(InputIds, b))
                         ELSE Absent]
        /\ failedFile = [exists |-> FALSE, lines |-> <<>>]
        /\ terminal = 1..k
        /\ prev = NoPrev
        /\ InitMem

SpecLive == InitLive /\ [][NextRun]_vars /\ Fairness

\* One run, for every value of MAX_RETRIES from 1 to the program's.
InitRetries ==
    \E r \in 1..Retries : InitWith(SmallSlots, r, SmallBatch, InputIds)

SpecRetries == InitRetries /\ [][NextRun]_vars

\* One run over the single batch [A, B, C].
ScenarioIds == <<"A", "B", "C">>

InitABC == InitWith(SmallSlots, Retries, Len(ScenarioIds), ScenarioIds)

SpecABC == InitABC /\ [][NextRun]_vars

\* One run against a server that answers every request with status 200,
\* for every list length from 0 to NumIds + 1 and every batch size from 1
\* to SmallBatch + 1.
InitSlices ==
    \E n \in 0..Min2(NumIds + 1, Len(IdList)) :
        \E bsize \in 1..(SmallBatch + 1) :
            InitWith(SmallSlots, Retries, bsize, SubSeq(IdList, 1, n))

NextSlices ==
    \/ Startup
    \/ BatchStart
    \/ Finish
    \/ \E p \in Range(IdList) : Acquire(p) \/ Respond200(p)
    \/ Consume
    \/ OpenArtifact
    \/ DumpArtifact
    \/ SkipFlush
    \/ NextBatch

SpecSlices == InitSlices /\ [][NextSlices]_vars

\* ------------------------------------------------------------------------
\* Helpers of the properties

Holders == {p \in Range(IdList) : task[p].st \in {"held", "backoff"}}

Requesting == {p \in Range(IdList) : task[p].st = "held"}

Exists(b) == artifact[b].st # "absent"

RowsFor(p, rows) == SelectSeq(rows, LAMBDA r : r[1] = p)

Last(s) == s[Len(s)]

\* main has executed open(out_file, "w") for batch b in this run
PastOpen(b) ==
    /\ b \in Range(dispatched)
    /\ \/ b < batch_index
       \/ pc \in {"dump", "flush", "flushh", "flushr", "sleep"}
       \/ pc = "dead" /\ prev.how \in {"dumpfail", "flushfail"}

\* every identifier of batch b is a record of the artifact or a row of
\* the failure log, and not both
Persisted(b) ==
    /\ artifact[b].st = "complete"
    /\ \A p \in BatchSet(ids, b) :
          (p \in Range(artifact[b].recs)) # (RowsFor(p, failedFile.lines) # <<>>)

\* ------------------------------------------------------------------------
\* C1: the fetches that hold a semaphore slot, and so the fetches that are
\* executing their request, are never more than MAX_CONCURRENCY.
C1_ConcurrencyBound ==
    /\ Cardinality(Holders) <= MAX_CONCURRENCY
    /\ Cardinality(Requesting) <= MAX_CONCURRENCY

C1_Witness ==
    /\ Cardinality(Holders) = MAX_CONCURRENCY
    /\ \E p \in Range(ids) : task[p].st = "wait"

\* C2 (as stated): the artifact of batch i exists if and only if all
\* identifiers of batch i reached a terminal outcome.
C2_ArtifactIffTerminal ==
    \A b \in DOMAIN artifact : Exists(b) <=> b \in terminal

\* C2 (amended): the artifact of batch i exists only if all identifiers of
\* batch i reached a terminal outcome, and it exists once main has executed
\* the open of the artifact for that batch.
C2_ArtifactOnlyIfTerminal ==
    \A b \in DOMAIN artifact :
        /\ Exists(b) => b \in terminal
        /\ (b \in terminal /\ PastOpen(b)) => Exists(b)

C2_Witness ==
    /\ pc = "join"
    /\ batch_index = 2
    /\ artifact[1].st = "partial"
    /\ 1 \in terminal
    /\ 2 \notin terminal

\* C3: the start batch is the highest batch index with an artifact plus
\* one, or 1 without artifact; with artifacts for exactly 1..k the run starts
\* at k+1, dispatches k+1 first, and rewrites no artifact of 1..k.
C3_StartState ==
    pc # "start" =>
        LET k == Cardinality(done_batches) IN
        /\ done_batches = 1..k
        /\ start_batch = k + 1
        /\ batch_index >= k + 1
        /\ dispatched # <<>> => dispatched[1] = k + 1
        /\ (pc \in {"join", "done"} /\ k + 1 <= total_batches(ids))
              => k + 1 \in Range(dispatched)

C3_KeepsDone ==
    \A b \in done_batches : artifact'[b] = artifact[b]

C3_Resume == [](C3_StartState) /\ [][C3_KeepsDone]_vars

C3_Witness ==
    /\ pc = "join"
    /\ done_batches = {1}
    /\ batch_index = 2
    /\ \E p \in Range(ids) : task[p].st = "held"

\* C4: within one run the batches are dispatched in increasing index
\* order, and while fetches of a batch exist the previous batch of the run
\* has its artifact written, its failures in the failure log and none of
\* them left in the buffer.
C4_BatchOrder ==
    /\ \A i \in 1..Len(dispatched) : dispatched[i] = start_batch + i - 1
    /\ \A b \in DOMAIN artifact :
          (b > start_batch /\ \E p \in BatchSet(ids, b) : task[p].st # "idle")
          => /\ Persisted(b - 1)
             /\ \A i \in 1..Len(failed_ids) : failed_ids[i][1] \in BatchSet(ids, b)

C4_Witness ==
    /\ pc = "join"
    /\ batch_index = start_batch + 1
    /\ \E p \in Range(ids) : task[p].st = "held"
    /\ \E p \in BatchSet(ids, start_batch) : RowsFor(p, failedFile.lines) # <<>>
    /\ \E p \in BatchSet(ids, start_batch) : p \in Range(artifact[start_batch].recs)

\* C5: after a dump of batch i that raised an I/O error no artifact of
\* batch i is on disk, and the next run resolves its start batch to i.
C5_NoArtifactAfterDumpError ==
    prev.how = "dumpfail" =>
        /\ ~Exists(prev.batch)
        /\ pc = "loop" => start_batch = prev.batch

\* C6: after a kill while fetches of batch i were in flight there is no
\* artifact of batch i and no failure row of an identifier of batch i on
\* disk, the next run starts at batch i and dispatches all its identifiers.
C6_InterruptedState ==
    prev.how = "midflight" =>
        /\ ~Exists(prev.batch)
        /\ \A p \in BatchSet(ids, prev.batch) : RowsFor(p, failedFile.lines) = <<>>
        /\ pc = "loop" => start_batch = prev.batch /\ batch_index = prev.batch

C6_Redispatch ==
    (prev.how = "midflight" /\ pc = "loop" /\ pc' = "join") =>
        /\ batch_index' = prev.batch
        /\ \A p \in BatchSet(ids, prev.batch) :
              task'[p] = [st |-> "wait", attempt |-> 1, wait |-> 0]

C6_InterruptedRedone == [](C6_InterruptedState) /\ [][C6_Redispatch]_vars

C6_Witness ==
    /\ prev = [how |-> "midflight", batch |-> 2]
    /\ pc = "loop"
    /\ RowsFor("A", failedFile.lines) # <<>>

\* C7: whatever MAX_RETRIES and the attempt, an identifier that received
\* 404 gets no further request, is no success record and has exactly one
\* failure record, (id, 404).
C7_NotFoundIsFinal ==
    \A p \in Range(ids) :
        (\E i \in 1..Len(hist[p]) : hist[p][i] = "404") =>
            /\ Last(hist[p]) = "404"
            /\ \A i \in 1..(Len(hist[p]) - 1) : hist[p][i] # "404"
            /\ task[p].st \in {"done", "idle"}
            /\ p \notin Range(results)
            /\ \A b \in DOMAIN artifact : p \notin Range(artifact[b].recs)
            /\ RowsFor(p, failedFile.lines \o failed_ids) = << <<p, "404">> >>

C7_Witness ==
    \E p \in Range(ids) :
        /\ Len(hist[p]) = 2
        /\ Last(hist[p]) = "404"
        /\ MAX_RETRIES > 2
        /\ pc = "sleep"

\* C8: once rows were flushed, the failure log has the header row exactly
\* once, as its first row.
C8_HeaderOnce ==
    failedFile.lines # <<>> =>
        /\ failedFile.lines[1] = Header
        /\ \A i \in 2..Len(failedFile.lines) : failedFile.lines[i] # Header

C8_Witness ==
    /\ pc = "sleep"
    /\ start_batch = 2
    /\ ~write_header
    /\ Len(failedFile.lines) >= 3
    /\ Last(failedFile.lines)[1] \in BatchSet(ids, 2)

\* C9: batch [A, B, C], MAX_RETRIES = 3, A got 200, B got 404, C got 429
\* then 200: the artifact holds exactly the records of A and C, the failure
\* log exactly the row (B, 404), and the 429 counter is 1.
C9_Scenario ==
    (/\ pc = "sleep"
     /\ hist["A"] = <<"200">>
     /\ hist["B"] = <<"404">>
     /\ hist["C"] = <<"429", "200">>)
    => /\ artifact[1].st = "complete"
       /\ Len(artifact[1].recs) = 2
       /\ Range(artifact[1].recs) = {"A", "C"}
       /\ failedFile.lines = <<Header, <<"B", "404">> >>
       /\ consecutive_429 = 1

C9_Witness ==
    /\ pc = "sleep"
    /\ hist["A"] = <<"200">>
    /\ hist["B"] = <<"404">>
    /\ hist["C"] = <<"429", "200">>
    /\ artifact[1].recs = <<"C", "A">>

\* C10: without I/O error, with every request eventually answered and fair
\* scheduling, the run eventually has written the artifact of every batch
\* from the start batch on and has terminated, whatever the outcomes were.
C10_RunCompletes ==
    <>(/\ pc = "done"
       /\ \A b \in start_batch..total_batches(ids) : artifact[b].st = "complete")

C10_Witness ==
    /\ pc = "done"
    /\ start_batch = 2
    /\ \A b \in DOMAIN artifact : artifact[b].st = "complete"
    /\ \E i \in 1..Len(failedFile.lines) :
          failedFile.lines[i][2] \in {"Failed", "Exception"}

\* C11: the backoff sleep after a 429 on attempt a lasts 5 * a and the one
\* after a timeout on attempt a lasts 2 * a; from one 429 of an identifier
\* to its next 429 the sleep gets strictly longer.
C11_WaitState ==
    \A p \in Range(ids) :
        task[p].st = "backoff" =>
            /\ task[p].attempt = Len(hist[p])
            /\ Last(hist[p]) = "429" => task[p].wait = 5 * Len(hist[p])
            /\ Last(hist[p]) = "timeout" => task[p].wait = 2 * Len(hist[p])

C11_Increasing ==
    \A p \in Range(ids) :
        (/\ hist[p] # <<>>
         /\ Last(hist[p]) = "429"
         /\ hist'[p] = Append(hist[p], "429"))
        => task'[p].wait > task[p].wait

C11_Backoff == [](C11_WaitState) /\ [][C11_Increasing]_vars

C11_Witness ==
    \E p \in Range(ids) :
        /\ task[p].st = "backoff"
        /\ hist[p] = <<"429", "429", "429">>
        /\ task[p].wait = 15

\* C12: a fetch holds a slot only while it makes its request and classifies
\* the outcome: the slots taken are those of the fetches in an attempt, and
\* a fetch that sleeps a backoff has given its slot back.
C12_SlotOnlyDuringAttempt ==
    MAX_CONCURRENCY - sem = Cardinality(Requesting)

\* the fetch of p ran out of attempts, all of them ended in outcome o
ExhaustedBy(p, o) ==
    /\ task[p].st = "done"
    /\ Len(hist[p]) = MAX_RETRIES
    /\ \A i \in 1..Len(hist[p]) : hist[p][i] = o

\* the fetch of p ran out of attempts
Exhausted(p) ==
    /\ task[p].st = "done"
    /\ Len(hist[p]) = MAX_RETRIES
    /\ \A i \in 1..Len(hist[p]) : hist[p][i] \in {"429", "timeout"}

\* the failure records of p, on disk and in the buffer
Records(p) == RowsFor(p, failedFile.lines \o failed_ids)

\* C13 (as stated): the failure record of an identifier that ran out of
\* attempts names the cause, so the record of one exhausted by 429 differs
\* in its reason from the record of one exhausted by timeouts.
C13_CauseDistinguishable ==
    \A p, q \in Range(ids) :
        (ExhaustedBy(p, "429") /\ ExhaustedBy(q, "timeout")) =>
            \A i \in 1..Len(Records(p)), j \in 1..Len(Records(q)) :
                Records(p)[i][2] # Records(q)[j][2]

\* C13 (amended): an identifier that ran out of attempts has the one
\* failure record (id, Failed), whatever 429 and timeouts used the attempts
\* up.
C13_ExhaustedIsFailed ==
    \A p \in Range(ids) : Exhausted(p) => Records(p) = << <<p, "Failed">> >>

C13_Witness ==
    \E p, q \in Range(ids) :
        /\ MAX_RETRIES = 3
        /\ ExhaustedBy(p, "429")
        /\ ExhaustedBy(q, "timeout")
        /\ Records(p) = << <<p, "Failed">> >>
        /\ Records(q) = << <<q, "Failed">> >>

\* the failure reason recorded for a permanent outcome
ReasonOf(o) == IF o = "exception" THEN "Exception" ELSE o

\* C14: an identifier that received a status outside {200, 404, 429} or an
\* exception other than a timeout gets no further request, whatever
\* attempts remain, and has exactly one failure record, with the status
\* code or the reason Exception.
C14_PermanentIsFinal ==
    \A p \in Range(ids) :
        \A o \in {"500", "exception"} :
            (\E i \in 1..Len(hist[p]) : hist[p][i] = o) =>
                /\ Last(hist[p]) = o
                /\ \A i \in 1..(Len(hist[p]) - 1) :
                      hist[p][i] \in {"429", "timeout"}
                /\ task[p].st \in {"done", "idle"}
                /\ p \notin Range(results)
                /\ Records(p) = << <<p, ReasonOf(o)>> >>

C14_Witness ==
    \E p, q \in Range(ids) :
        /\ MAX_RETRIES = 3
        /\ hist[p] = <<"500">>
        /\ hist[q] = <<"timeout", "exception">>
        /\ pc = "dump"

\* requests issued for p in this run: the answered ones and the one in flight
Requests(p) == Len(hist[p]) + (IF task[p].st = "held" THEN 1 ELSE 0)

Retryable(h, n) == \A i \in 1..n : h[i] \in {"429", "timeout"}

\* C15: within one run an identifier gets at most MAX_RETRIES requests,
\* request a+1 is issued only if request a ended in 429 or a timeout, and
\* an identifier whose every attempt ends in 429 or timeout gets exactly
\* MAX_RETRIES requests and then one failure record.
C15_BoundedRetries ==
    \A p \in Range(ids) :
        /\ Requests(p) <= MAX_RETRIES
        /\ Retryable(hist[p], Requests(p) - 1)
        /\ (task[p].st = "done" /\ Retryable(hist[p], Len(hist[p]))) =>
              /\ Len(hist[p]) = MAX_RETRIES
              /\ Len(Records(p)) = 1

C15_Witness ==
    \E p \in Range(ids) :
        /\ MAX_RETRIES = 3
        /\ task[p].st = "done"
        /\ hist[p] = <<"429", "timeout", "429">>
        /\ Len(Records(p)) = 1

\* the identifiers named by a sequence of failure rows
RowIds(rows) == {rows[i][1] : i \in 1..Len(rows)}

\* the rows that a step added at the end of the failure log
Flushed == SubSeq(failedFile'.lines, Len(failedFile.lines) + 1,
                  Len(failedFile'.lines))

C16_BufferState ==
    /\ failed_ids # <<>> => RowIds(failed_ids) \subseteq CurBatch
    /\ pc \in {"flush", "flushh", "flushr"} => ~InFlight
    /\ pc \in {"start", "loop"} => failed_ids = <<>>

C16_BufferStep ==
    /\ (failed_ids' # failed_ids /\ pc' # "start") =>
          \/ /\ pc = "join"
             /\ \E p \in CurBatch :
                   /\ task[p].st \in {"held", "backoff"}
                   /\ Len(failed_ids') = Len(failed_ids) + 1
                   /\ SubSeq(failed_ids', 1, Len(failed_ids)) = failed_ids
                   /\ Last(failed_ids')[1] = p
          \/ /\ pc = "flushr"
             /\ ~InFlight
             /\ failed_ids' = <<>>
    /\ failedFile'.lines # failedFile.lines =>
          /\ ~InFlight
          /\ pc \in {"flushh", "flushr"}
          /\ SubSeq(failedFile'.lines, 1, Len(failedFile.lines))
                = failedFile.lines
          /\ Flushed = <<Header>> \/ (Flushed = failed_ids
                                       /\ RowIds(Flushed) \subseteq CurBatch)

\* C16: the failure buffer is appended to only by fetches of the batch in
\* flight, and is read, flushed and cleared only when every fetch of that
\* batch has returned; so the buffer is empty whenever a batch starts and
\* the rows flushed after batch i name only identifiers of batch i.
C16_BufferDiscipline == [](C16_BufferState) /\ [][C16_BufferStep]_vars

C16_Witness ==
    /\ pc = "sleep"
    /\ batch_index = 2
    /\ failed_ids = <<>>
    /\ "A" \in RowIds(failedFile.lines)
    /\ "C" \in RowIds(failedFile.lines)

\* the 1-based list positions of the slice ids[start:end] of batch b
Positions(l, b) == (slice_start(b) + 1)..slice_end(l, b)

\* C17: for every list length and batch size the slices of the batches
\* 1..ceil(L/BATCH_SIZE) partition the list: every position lies in exactly
\* one batch, the one given by its 0-based position divided by BATCH_SIZE,
\* plus one; every batch but the last has BATCH_SIZE identifiers; no batch
\* is empty.  The tasks of a batch and the records of its artifact are the
\* identifiers of its slice.
C17_SlicesPartition ==
    LET L == Len(ids)
        T == total_batches(ids)
    IN  /\ T * BATCH_SIZE >= L
        /\ (T - 1) * BATCH_SIZE < L \/ (L = 0 /\ T = 0)
        /\ \A pos \in 1..L :
              /\ \A b \in 1..T :
                    pos \in Positions(ids, b) <=>
                        b = ((pos - 1) \div BATCH_SIZE) + 1
              /\ \E b \in 1..T : pos \in Positions(ids, b)
        /\ \A b \in 1..T :
              /\ Len(batch_ids(ids, b)) >= 1
              /\ b < T => Len(batch_ids(ids, b)) = BATCH_SIZE
              /\ \A i \in 1..Len(batch_ids(ids, b)) :
                    batch_ids(ids, b)[i] = ids[slice_start(b) + i]
              /\ artifact[b].st = "complete" =>
                    Range(artifact[b].recs) = {ids[i] : i \in Positions(ids, b)}
        /\ pc = "join" =>
              {p \in Range(IdList) : task[p].st # "idle"}
                  = {ids[i] : i \in Positions(ids, batch_index)}
        /\ pc = "done" =>
              \A pos \in 1..L :
                  Cardinality({b \in 1..T : ids[pos] \in Range(artifact[b].recs)})
                      = 1

C17_Witness ==
    /\ pc = "join"
    /\ batch_index = total_batches(ids)
    /\ batch_index >= 2
    /\ Len(batch_ids(ids, batch_index)) < BATCH_SIZE
    /\ \E p \in CurBatch : task[p].st = "held"

\* the success records of p in the results list
Successes(p) == SelectSeq(results, LAMBDA r : r = p)

\* C18: when a batch's artifact is written every identifier of the batch
\* has exactly one success record in results or exactly one failure record
\* in the buffer, never both and never neither, so successes plus failures
\* equal the number of identifiers of the batch.
C18_OutcomeConservation ==
    pc = "dump" =>
        /\ \A p \in CurBatch :
              \/ Len(Successes(p)) = 1 /\ RowsFor(p, failed_ids) = <<>>
              \/ Successes(p) = <<>> /\ Len(RowsFor(p, failed_ids)) = 1
        /\ Len(results) + Len(failed_ids) = Cardinality(CurBatch)

C18_Witness ==
    /\ pc = "dump"
    /\ Cardinality(CurBatch) = 2
    /\ Len(results) = 1
    /\ \E p \in CurBatch : RowsFor(p, failed_ids) = << <<p, "Failed">> >>

\* C19: after any sequence of runs, crashes and restarts, every identifier
\* of a batch whose artifact is on disk is accounted for on disk, as a
\* success record of that artifact or as a row of the failure log.  (Stated
\* for the artifacts that were written completely, at the start of a run
\* and at the end of one.)
C19_CheckpointedAccounted ==
    pc \in {"start", "done"} =>
        \A b \in DOMAIN artifact :
            artifact[b].st = "complete" =>
                \A p \in BatchSet(ids, b) :
                    \/ p \in Range(artifact[b].recs)
                    \/ RowsFor(p, failedFile.lines) # <<>>

\* C20: every exit path of an attempt releases the slot it acquired:
\* the slots taken are exactly those of the fetches inside the semaphore
\* block, releases never exceed acquisitions, and when every fetch of a
\* batch has returned all MAX_CONCURRENCY slots are free.
C20_SlotsReleased ==
    /\ sem + Cardinality(Holders) = MAX_CONCURRENCY
    /\ sem >= 0
    /\ sem <= MAX_CONCURRENCY
    /\ ~InFlight => sem = MAX_CONCURRENCY

C20_Witness ==
    /\ pc = "dump"
    /\ sem = MAX_CONCURRENCY
    /\ \E p, q \in CurBatch :
          /\ hist[p] = <<"429", "timeout", "200">>
          /\ Last(hist[q]) \in {"404", "500", "exception"}

====
